---- MODULE Spec2Model ----
(***************************************************************************)
(* A model of research_seed/theoretical/larq_approximation_viewpoint_cifar *)
(* .py: the model factory build_model, the weight comparison               *)
(* are_layers_equal, the experiment main and the statistics routine        *)
(* result_stats run by the script's entry point.                           *)
(*                                                                         *)
(* Four specifications share the variables below:                          *)
(*   SpecBuild   one call of build_model, one step per source statement    *)
(*   SpecEqual   one call of are_layers_equal on a drawn pair of models    *)
(*   SpecMain    one call of main                                          *)
(*   SpecScript  executions of the file (as a script or as an import)      *)
(***************************************************************************)
EXTENDS Integers, Sequences, FiniteSets, TLC

VARIABLES
    \* ---- build_model
    use_binary_weights, only_train_bm_layers, use_bm_layers,
    kernel_init,        \* the tensor the kernel initializer draws
    bpc,                \* index of the next statement of build_model
    model,              \* model.layers of the Sequential under construction
    compiled,           \* model.compile has run
    name_uids,          \* Keras' per-session count of layer names handed out
    \* ---- are_layers_equal
    m1, m2, ignore_bm,
    runtime,            \* the Python implementation that evaluates `is`
    eq,                 \* the call in progress
    \* ---- main
    with_bm, mpc, binary_weight_model, real_weight_model, main_out, events,
    \* ---- the script and result_stats
    dunder_name,        \* __name__ of the module in this execution
    spc, ip, calls, run, k, bin, real, real_retrained, stdout, history

buildVars  == <<use_binary_weights, only_train_bm_layers, use_bm_layers,
                kernel_init, bpc, model, compiled>>
equalVars  == <<m1, m2, ignore_bm, eq>>
mainVars   == <<with_bm, mpc, binary_weight_model, real_weight_model,
                main_out, events>>
scriptVars == <<dunder_name, spc, ip, calls, run, k, bin, real,
                real_retrained, stdout, history>>
vars == <<buildVars, equalVars, mainVars, scriptVars, name_uids, runtime>>

Min(a, b) == IF a < b THEN a ELSE b

(***************************************************************************)
(* Tensors.  A weight tensor is its sequence of elements; every tensor of  *)
(* the model has the same shape.                                           *)
(***************************************************************************)
Zeros == <<0, 0>>
Ones  == <<1, 1>>
Mixed == <<0, 1>>
Tensors == {Zeros, Mixed, Ones}

(***************************************************************************)
(* Layers.  A layer name is <<base, n>>: Keras names the n-th layer of a   *)
(* class in a session base, base_1, base_2, ...                            *)
(***************************************************************************)
BaseName(cls) ==
    CASE cls = "QuantConv2D"        -> "quant_conv2d"
      [] cls = "QuantDense"         -> "quant_dense"
      [] cls = "MaxPooling2D"       -> "max_pooling2d"
      [] cls = "BatchNormalization" -> "batch_normalization"
      [] cls = "Flatten"            -> "flatten"
      [] cls = "Activation"         -> "activation"

BaseNames == {"quant_conv2d", "quant_dense", "max_pooling2d",
              "batch_normalization", "flatten", "activation"}

NoUids == [b \in BaseNames |-> 0]

QuantClasses == {"QuantConv2D", "QuantDense"}

\* The variables a new layer of class cls creates: one kernel for a quantized
\* layer (use_bias=False), beta, moving_mean and moving_variance for
\* BatchNormalization(scale=False), none for the others.
InitialWeights(cls, kinit) ==
    CASE cls \in QuantClasses         -> <<kinit>>
      [] cls = "BatchNormalization"   -> <<Zeros, Zeros, Ones>>
      [] OTHER                        -> <<>>

\* kwargs without line 34's dependence on only_train_bm_layers
kwargsAllTrainable(ubw, otb) ==
    [input_quantizer   |-> "ste_sign",
     kernel_quantizer  |-> IF ubw THEN "ste_sign" ELSE "None",
     kernel_constraint |-> "weight_clip",
     trainable         |-> TRUE]

\* ---- build_model, lines 30-35: the keyword arguments shared by the layers
\* ---- after the first
kwargs(ubw, otb) ==
    [input_quantizer   |-> "ste_sign",
     kernel_quantizer  |-> IF ubw THEN "ste_sign" ELSE "None",
     kernel_constraint |-> "weight_clip",
     trainable         |-> ~otb]

Quant(cls, kw) ==
    [cls |-> cls, input_quantizer |-> kw.input_quantizer,
     kernel_quantizer |-> kw.kernel_quantizer,
     kernel_constraint |-> kw.kernel_constraint, trainable |-> kw.trainable]

Plain(cls) ==
    [cls |-> cls, input_quantizer |-> "None", kernel_quantizer |-> "None",
     kernel_constraint |-> "None", trainable |-> TRUE]

NoLayer == [cls |-> "None"]

\* model.add(BatchNormalization(scale=False)) if use_bm_layers else None
BMIf(ubm) == IF ubm THEN Plain("BatchNormalization") ELSE NoLayer

\* the first convolution without line 47
FirstConvAlwaysTrainable(ubw, otb) ==
    [cls |-> "QuantConv2D", input_quantizer |-> "None",
     kernel_quantizer |-> "ste_sign", kernel_constraint |-> "weight_clip",
     trainable |-> TRUE]

\* lines 39-49: the first convolution spells its arguments out
FirstConv(ubw, otb) ==
    [cls |-> "QuantConv2D", input_quantizer |-> "None",
     kernel_quantizer |-> "ste_sign", kernel_constraint |-> "weight_clip",
     trainable |-> ~otb]

\* the statements without line 58
BuildStmtsNoThirdBM(ubw, otb, ubm) ==
    << FirstConv(ubw, otb),
       Plain("MaxPooling2D"),
       BMIf(ubm),
       Quant("QuantConv2D", kwargs(ubw, otb)),
       Plain("MaxPooling2D"),
       BMIf(ubm),
       Quant("QuantConv2D", kwargs(ubw, otb)),
       NoLayer,
       Plain("Flatten"),
       Quant("QuantDense", kwargs(ubw, otb)),
       BMIf(ubm),
       Quant("QuantDense", kwargs(ubw, otb)),
       BMIf(ubm),
       Plain("Activation") >>

\* lines 39-66: the model.add statements in source order
BuildStmts(ubw, otb, ubm) ==
    << FirstConv(ubw, otb),                        \* 39-49
       Plain("MaxPooling2D"),                      \* 50
       BMIf(ubm),                                  \* 51
       Quant("QuantConv2D", kwargs(ubw, otb)),     \* 53
       Plain("MaxPooling2D"),                      \* 54
       BMIf(ubm),                                  \* 55
       Quant("QuantConv2D", kwargs(ubw, otb)),     \* 57
       BMIf(ubm),                                  \* 58
       Plain("Flatten"),                           \* 60
       Quant("QuantDense", kwargs(ubw, otb)),      \* 62
       BMIf(ubm),                                  \* 63
       Quant("QuantDense", kwargs(ubw, otb)),      \* 64
       BMIf(ubm),                                  \* 65
       Plain("Activation") >>                      \* 66

NumStmts == Len(BuildStmts(TRUE, TRUE, TRUE))

\* The layer object a constructor call makes, named from the session's uids.
NewLayer(cfg, uids, kinit) ==
    [name             |-> <<BaseName(cfg.cls), uids[BaseName(cfg.cls)]>>,
     cls              |-> cfg.cls,
     trainable        |-> cfg.trainable,
     input_quantizer  |-> cfg.input_quantizer,
     kernel_quantizer |-> cfg.kernel_quantizer,
     weights          |-> InitialWeights(cfg.cls, kinit)]

\* One statement of lines 39-66 applied to <<layers, uids>>.
ExecStmt(st, cfg, kinit) ==
    IF cfg.cls = "None"
    THEN st
    ELSE [layers |-> Append(st.layers, NewLayer(cfg, st.uids, kinit)),
          uids   |-> [st.uids EXCEPT ![BaseName(cfg.cls)] = @ + 1]]

RECURSIVE ExecStmts(_, _, _, _)
ExecStmts(st, stmts, n, kinit) ==
    IF n > Len(stmts) THEN st
    ELSE ExecStmts(ExecStmt(st, stmts[n], kinit), stmts, n + 1, kinit)

\* build_model as one call: the layers of the returned model and the uids left
build_model(ubw, otb, ubm, uids, kinit) ==
    ExecStmts([layers |-> <<>>, uids |-> uids], BuildStmts(ubw, otb, ubm),
              1, kinit)

(***************************************************************************)
(* SpecBuild: build_model statement by statement.                          *)
(***************************************************************************)
IdleEqual ==
    /\ m1 = <<>> /\ m2 = <<>> /\ ignore_bm = FALSE
    /\ eq = [pc |-> "idle", i |-> 0, j |-> 0, result |-> FALSE,
             printed |-> <<>>, examined |-> <<>>]

IdleMain ==
    /\ with_bm = FALSE /\ mpc = "idle"
    /\ binary_weight_model = <<>> /\ real_weight_model = <<>>
    /\ main_out = <<>> /\ events = <<>>

IdleBuild ==
    /\ use_binary_weights = FALSE /\ only_train_bm_layers = FALSE
    /\ use_bm_layers = FALSE /\ kernel_init = Zeros
    /\ bpc = 0 /\ model = <<>> /\ compiled = FALSE

IdleScript ==
    /\ dunder_name = "" /\ spc = "idle" /\ ip = 0 /\ calls = <<>>
    /\ run = 0 /\ k = 0
    /\ bin = <<>> /\ real = <<>> /\ real_retrained = <<>>
    /\ stdout = <<>> /\ history = <<>>

InitBuild ==
    /\ use_binary_weights \in BOOLEAN
    /\ only_train_bm_layers \in BOOLEAN
    /\ use_bm_layers \in BOOLEAN
    /\ kernel_init \in Tensors
    /\ bpc = 1
    /\ model = <<>>
    /\ compiled = FALSE
    /\ name_uids = NoUids
    /\ runtime = "CPython"
    /\ IdleEqual /\ IdleMain /\ IdleScript

\* one model.add statement (lines 39-66)
BuildAdd ==
    /\ bpc \in 1..NumStmts
    /\ LET cfg == BuildStmts(use_binary_weights, only_train_bm_layers,
                             use_bm_layers)[bpc]
           st  == ExecStmt([layers |-> model, uids |-> name_uids], cfg,
                           kernel_init)
       IN /\ model' = st.layers
          /\ name_uids' = st.uids
    /\ bpc' = bpc + 1
    /\ UNCHANGED <<use_binary_weights, only_train_bm_layers, use_bm_layers,
                   kernel_init, compiled, equalVars, mainVars, scriptVars,
                   runtime>>

\* lines 68-74: compile and return
BuildCompile ==
    /\ bpc = NumStmts + 1
    /\ compiled' = TRUE
    /\ bpc' = bpc + 1
    /\ UNCHANGED <<use_binary_weights, only_train_bm_layers, use_bm_layers,
                   kernel_init, model, name_uids, equalVars, mainVars,
                   scriptVars, runtime>>

NextBuild == BuildAdd \/ BuildCompile

SpecBuild == InitBuild /\ [][NextBuild]_vars

BuildDone == bpc = NumStmts + 2

ClsSeq(layers) == [n \in 1..Len(layers) |-> layers[n].cls]

CountCls(layers, C) == Cardinality({n \in 1..Len(layers) : layers[n].cls \in C})

StackWithBM ==
    << "QuantConv2D", "MaxPooling2D", "BatchNormalization",
       "QuantConv2D", "MaxPooling2D", "BatchNormalization",
       "QuantConv2D", "BatchNormalization",
       "Flatten",
       "QuantDense", "BatchNormalization",
       "QuantDense", "BatchNormalization",
       "Activation" >>

StackWithoutBM ==
    << "QuantConv2D", "MaxPooling2D", "QuantConv2D", "MaxPooling2D",
       "QuantConv2D", "Flatten", "QuantDense", "QuantDense", "Activation" >>

\* C4: the built model has normalization layers iff use_bm_layers, whatever
\* the other two flags: with the flag 14 layers of which 5 are
\* BatchNormalization (after the first two poolings, after the third
\* convolution and after each dense layer), without it 9 layers and none, the
\* other layers being the same in the same order.
C4_BMLayersIffFlag ==
    /\ (CountCls(model, {"BatchNormalization"}) > 0) => use_bm_layers
    /\ BuildDone =>
          /\ use_bm_layers =>
                /\ Len(model) = 14
                /\ CountCls(model, {"BatchNormalization"}) = 5
                /\ ClsSeq(model) = StackWithBM
          /\ ~use_bm_layers =>
                /\ Len(model) = 9
                /\ CountCls(model, {"BatchNormalization"}) = 0
                /\ ClsSeq(model) = StackWithoutBM
          /\ SelectSeq(ClsSeq(model), LAMBDA c : c # "BatchNormalization")
                = StackWithoutBM

C4_Witness ==
    /\ BuildDone /\ use_bm_layers /\ ~use_binary_weights
    /\ only_train_bm_layers
    /\ model[8].cls = "BatchNormalization"

HoldsTrainableWeights(l) == l.trainable /\ l.weights # <<>>

\* C5: in every flag combination each of the five quantized convolution and
\* dense layers, the first convolution included, has trainable = not
\* only_train_bm_layers, every normalization layer is trainable, and with
\* only_train_bm_layers the layers holding trainable weights are exactly the
\* normalization layers.
C5_TrainableFlags ==
    /\ \A n \in 1..Len(model) :
          /\ model[n].cls \in QuantClasses =>
                model[n].trainable = ~only_train_bm_layers
          /\ model[n].cls = "BatchNormalization" => model[n].trainable
    /\ BuildDone =>
          /\ CountCls(model, QuantClasses) = 5
          /\ model[1].cls = "QuantConv2D"
          /\ only_train_bm_layers =>
                \A n \in 1..Len(model) :
                    HoldsTrainableWeights(model[n])
                        <=> model[n].cls = "BatchNormalization"

C5_Witness ==
    /\ BuildDone /\ only_train_bm_layers /\ use_bm_layers
    /\ ~model[1].trainable /\ model[3].trainable
    /\ HoldsTrainableWeights(model[3])

\* C6: use_binary_weights decides binarization: every quantized convolution
\* or dense layer of the built model has the sign quantizer on its kernel iff
\* use_binary_weights, so with the flag off no kernel is binarized.
C6_BinarizedIffFlag ==
    BuildDone =>
        \A n \in 1..Len(model) :
            model[n].cls \in QuantClasses =>
                (model[n].kernel_quantizer = "ste_sign" <=> use_binary_weights)

(***************************************************************************)
(* are_layers_equal (lines 104-125).                                       *)
(***************************************************************************)

\* The largest int CPython keeps as a shared object: len() of anything longer
\* is a fresh object on every call.
SmallIntCacheMax == 256

Runtimes == {"CPython", "ByValue"}

\* `a is b` in place of `a is not b`
IsNotAsIs(a, b, rt) ==
    IF rt = "CPython" THEN a = b /\ a <= SmallIntCacheMax ELSE a = b

\* `a is not b` for two results of len(): object identity.  CPython shares
\* the ints up to SmallIntCacheMax and allocates the others, so two equal
\* lengths above it are different objects; an implementation that compares
\* ints by value (PyPy) answers a != b.
IsNot(a, b, rt) ==
    IF rt = "CPython" THEN a # b \/ a > SmallIntCacheMax ELSE a # b

\* w1 == w2: the elementwise comparison of two tensors of one shape
TensorEq(w1, w2) == [e \in 1..Len(w1) |-> w1[e] = w2[e]]

\* tf.reduce_all
ReduceAll(b) == \A e \in 1..Len(b) : b[e]

\* sub in name, for the name <<base, n>> (base, or base_n): no other base
\* name and no numeric suffix contains a base name
NameHas(sub, name) == name[1] = sub

\* A call in progress: the line it is at (pc), the loop indices, and what it
\* has done: the comparisons made, in order, as <<kind, layer index, tensor
\* index>>, the lines printed and the value returned.
Entered ==
    [pc |-> "len", i |-> 0, j |-> 0, result |-> FALSE, printed |-> <<>>,
     examined |-> <<>>]

Looked(s, kind) == [s EXCEPT !.examined = Append(@, <<kind, s.i, s.j>>)]

ReturnFalse(s, line) ==
    [s EXCEPT !.pc = "done", !.result = FALSE, !.printed = Append(@, line)]

ReturnTrue(s) == [s EXCEPT !.pc = "done", !.result = TRUE]

\* lines 108-110
StepLen(a, b, rt, s) ==
    IF IsNot(Len(a), Len(b), rt)
    THEN ReturnFalse(Looked(s, "layer count"), "models layer length not equal")
    ELSE [Looked(s, "layer count") EXCEPT !.pc = "layer", !.i = 1]

\* line 112: the next pair of zip(m1_layers, m2_layers), or line 125
StepLayer(a, b, s) ==
    IF s.i > Min(Len(a), Len(b))
    THEN ReturnTrue(s)
    ELSE [s EXCEPT !.pc = "weight count", !.j = 0]

\* lines 113-115
StepWeightCount(a, b, rt, s) ==
    IF IsNot(Len(a[s.i].weights), Len(b[s.i].weights), rt)
    THEN ReturnFalse(Looked(s, "weight count"), "model weight length not equal")
    ELSE [Looked(s, "weight count") EXCEPT !.pc = "skip"]

\* lines 117-118
StepSkip(a, ign, s) ==
    IF NameHas("batch_normalization", a[s.i].name) /\ ign
    THEN [Looked(s, "skip") EXCEPT !.pc = "layer", !.i = @ + 1]
    ELSE [s EXCEPT !.pc = "tensor", !.j = 1]

\* lines 120-123: the next pair of zip(l1.weights, l2.weights)
StepTensor(a, b, s) ==
    IF s.j > Min(Len(a[s.i].weights), Len(b[s.i].weights))
    THEN [s EXCEPT !.pc = "layer", !.i = @ + 1, !.j = 0]
    ELSE IF ~ReduceAll(TensorEq(a[s.i].weights[s.j], b[s.i].weights[s.j]))
         THEN ReturnFalse(Looked(s, "value"), "weights not equal")
         ELSE [Looked(s, "value") EXCEPT !.j = @ + 1]

Step(a, b, ign, rt, s) ==
    CASE s.pc = "len"          -> StepLen(a, b, rt, s)
      [] s.pc = "layer"        -> StepLayer(a, b, s)
      [] s.pc = "weight count" -> StepWeightCount(a, b, rt, s)
      [] s.pc = "skip"         -> StepSkip(a, ign, s)
      [] s.pc = "tensor"       -> StepTensor(a, b, s)

RECURSIVE RunCall(_, _, _, _, _)
RunCall(a, b, ign, rt, s) ==
    IF s.pc = "done" THEN s ELSE RunCall(a, b, ign, rt, Step(a, b, ign, rt, s))

\* lines 104-125 as one call
are_layers_equal(a, b, ign, rt) == RunCall(a, b, ign, rt, Entered)

(***************************************************************************)
(* SpecEqual: one call of are_layers_equal on two models drawn from        *)
(* Models.                                                                 *)
(***************************************************************************)
MaxLayers == 2

Layer(cls, n, ws) ==
    [name |-> <<BaseName(cls), n>>, cls |-> cls, trainable |-> TRUE,
     input_quantizer |-> "None", kernel_quantizer |-> "None", weights |-> ws]

LayerSet ==
    { Layer("MaxPooling2D", 0, <<>>),
      Layer("QuantConv2D", 0, <<Zeros>>),
      Layer("QuantConv2D", 1, <<Mixed>>),
      Layer("BatchNormalization", 0, <<Zeros, Zeros, Ones>>),
      Layer("BatchNormalization", 1, <<Zeros, Mixed, Ones>>) }

ShallowModels == UNION {[1..n -> LayerSet] : n \in 0..MaxLayers}

\* models with more layers than CPython has shared ints
DeepModels ==
    { [n \in 1..(SmallIntCacheMax + 1) |-> l] :
        l \in { Layer("QuantConv2D", 0, <<Zeros>>),
                Layer("BatchNormalization", 1, <<Zeros, Mixed, Ones>>) } }

\* a model whose one layer has more weight tensors than that
WideModels ==
    { << Layer("QuantDense", 0,
               [n \in 1..(SmallIntCacheMax + 1) |-> Zeros]) >> }

Models == ShallowModels \cup DeepModels \cup WideModels

InitEqual ==
    /\ m1 \in Models
    /\ m2 \in Models
    /\ ignore_bm \in BOOLEAN
    /\ runtime \in Runtimes
    /\ eq = Entered
    /\ name_uids = NoUids
    /\ IdleBuild /\ IdleMain /\ IdleScript

EqualFrame == UNCHANGED <<m1, m2, ignore_bm, runtime, name_uids, buildVars,
                          mainVars, scriptVars>>

CheckLayerCount ==
    /\ eq.pc = "len"
    /\ eq' = StepLen(m1, m2, runtime, eq)
    /\ EqualFrame

NextLayer ==
    /\ eq.pc = "layer"
    /\ eq' = StepLayer(m1, m2, eq)
    /\ EqualFrame

CheckWeightCount ==
    /\ eq.pc = "weight count"
    /\ eq' = StepWeightCount(m1, m2, runtime, eq)
    /\ EqualFrame

SkipNormalization ==
    /\ eq.pc = "skip"
    /\ eq' = StepSkip(m1, ignore_bm, eq)
    /\ EqualFrame

CompareTensor ==
    /\ eq.pc = "tensor"
    /\ eq' = StepTensor(m1, m2, eq)
    /\ EqualFrame

NextEqual ==
    \/ CheckLayerCount
    \/ NextLayer
    \/ CheckWeightCount
    \/ SkipNormalization
    \/ CompareTensor

SpecEqual == InitEqual /\ [][NextEqual]_vars

EqualDone == eq.pc = "done"

PairedLayers(a, b) == 1..Min(Len(a), Len(b))

PairedTensors(a, b, n) == 1..Min(Len(a[n].weights), Len(b[n].weights))

\* the same number of layers, and of weight tensors in each paired layer
SameStructure(a, b) ==
    /\ Len(a) = Len(b)
    /\ \A n \in PairedLayers(a, b) : Len(a[n].weights) = Len(b[n].weights)

LayerValuesEqual(a, b, n) ==
    \A t \in PairedTensors(a, b, n) :
        \A e \in 1..Len(a[n].weights[t]) :
            a[n].weights[t][e] = b[n].weights[t][e]

SomeTensorDiffers(a, b) ==
    \E n \in PairedLayers(a, b) : ~LayerValuesEqual(a, b, n)

\* C1: with ignore_bm=False the call returns True for every two models of
\* the same structure whose paired weight tensors are all equal, and False
\* whenever a paired weight tensor differs in some element.
C1_EqualIffSameWeights ==
    (EqualDone /\ ~ignore_bm) =>
        /\ (SameStructure(m1, m2) /\ ~SomeTensorDiffers(m1, m2)) => eq.result
        /\ SomeTensorDiffers(m1, m2) => ~eq.result

BothNormalization(a, b, n) ==
    a[n].cls = "BatchNormalization" /\ b[n].cls = "BatchNormalization"

\* C2: with ignore_bm=True the call returns True for every two models of the
\* same structure whose weight tensors are equal in every layer that is not
\* a batch-normalization layer, whatever the normalization weights are.
C2_IgnoresNormalizationWeights ==
    (/\ EqualDone /\ ignore_bm
     /\ SameStructure(m1, m2)
     /\ \A n \in PairedLayers(m1, m2) :
           ~BothNormalization(m1, m2, n) => LayerValuesEqual(m1, m2, n))
    => eq.result

Diagnostics ==
    {"models layer length not equal", "model weight length not equal",
     "weights not equal"}

\* C3: when the models differ in their number of layers, or some paired
\* layers differ in their number of weight tensors, the call ends by
\* printing a diagnostic and returning False, whatever ignore_bm is.
C3_StructureMismatchReturnsFalse ==
    /\ eq.pc \in {"len", "layer", "weight count", "skip", "tensor", "done"}
    /\ (EqualDone /\ ~SameStructure(m1, m2)) =>
          /\ ~eq.result
          /\ Len(eq.printed) = 1
          /\ eq.printed[1] \in Diagnostics

C3_Witness ==
    /\ EqualDone /\ ignore_bm /\ Len(m1) = Len(m2) /\ Len(m1) = 2
    /\ Len(m1[1].weights) = Len(m2[1].weights)
    /\ Len(m1[2].weights) # Len(m2[2].weights)
    /\ eq.printed = <<"model weight length not equal">>
    /\ ~eq.result

\* The first mismatch in layer order that a comparison with the given
\* ignore_bm meets, as <<kind, layer index, tensor index>>; <<>> if none.
Skipped(a, ign, n) == ign /\ a[n].name[1] = "batch_normalization"

LayerMismatch(a, b, ign, n) ==
    \/ Len(a[n].weights) # Len(b[n].weights)
    \/ ~Skipped(a, ign, n) /\ ~LayerValuesEqual(a, b, n)

EarliestMismatch(a, b, ign) ==
    IF Len(a) # Len(b) THEN <<"layer count", 0, 0>>
    ELSE IF \A n \in PairedLayers(a, b) : ~LayerMismatch(a, b, ign, n)
    THEN <<>>
    ELSE LET n == CHOOSE x \in PairedLayers(a, b) :
                    /\ LayerMismatch(a, b, ign, x)
                    /\ \A y \in 1..(x - 1) : ~LayerMismatch(a, b, ign, y)
         IN IF Len(a[n].weights) # Len(b[n].weights)
            THEN <<"weight count", n, 0>>
            ELSE <<"value", n,
                   CHOOSE t \in PairedTensors(a, b, n) :
                      /\ a[n].weights[t] # b[n].weights[t]
                      /\ \A u \in 1..(t - 1) :
                            a[n].weights[u] = b[n].weights[u]>>

DiagnosticOf(kind) ==
    CASE kind = "layer count"  -> "models layer length not equal"
      [] kind = "weight count" -> "model weight length not equal"
      [] kind = "value"        -> "weights not equal"

\* within one layer the weight count is compared before the skip and before
\* any value
CountComparedFirst(ex) ==
    \A n \in 1..Len(ex) :
        ex[n][1] \in {"skip", "value"} =>
            \E c \in 1..(n - 1) : ex[c] = <<"weight count", ex[n][2], 0>>

\* C9: a call that returns False has printed exactly one diagnostic, the one
\* naming the kind of the earliest mismatch in layer order, and that mismatch
\* is the last comparison it made; a call that returns True has printed
\* nothing; within a layer the weight-tensor count is compared before the
\* normalization skip and before any value.
C9_ShortCircuitOnFirstMismatch ==
    /\ CountComparedFirst(eq.examined)
    /\ EqualDone =>
          /\ eq.result => eq.printed = <<>>
          /\ ~eq.result =>
                /\ EarliestMismatch(m1, m2, ignore_bm) # <<>>
                /\ eq.printed =
                     <<DiagnosticOf(EarliestMismatch(m1, m2, ignore_bm)[1])>>
                /\ eq.examined[Len(eq.examined)]
                     = EarliestMismatch(m1, m2, ignore_bm)

\* The three statements above restricted to a runtime that compares the
\* lengths by value.
EqualClaimsByValue ==
    runtime = "ByValue" =>
        /\ C1_EqualIffSameWeights
        /\ C2_IgnoresNormalizationWeights
        /\ C9_ShortCircuitOnFirstMismatch

(***************************************************************************)
(* main (lines 128-169) and the wrappers it calls.                         *)
(***************************************************************************)

\* model.get_weights(): the weights of the layers, flattened in layer order
RECURSIVE get_weights(_)
get_weights(layers) ==
    IF layers = <<>> THEN <<>>
    ELSE Head(layers).weights \o get_weights(Tail(layers))

\* model.set_weights(flat): each layer takes as many of the values as it has
\* weights
RECURSIVE set_weights(_, _)
set_weights(layers, flat) ==
    IF layers = <<>> THEN <<>>
    ELSE LET n == Len(Head(layers).weights)
         IN <<[Head(layers) EXCEPT !.weights = SubSeq(flat, 1, n)]>>
            \o set_weights(Tail(layers), SubSeq(flat, n + 1, Len(flat)))

\* model.fit inside train_model (lines 86-93): the optimizer moves the
\* variables of the trainable layers, and a trainable normalization layer
\* also moves its statistics; the other layers keep their weights.  kernel
\* and norm are the values training leaves.
Fit(layers, kernel, norm) ==
    [n \in 1..Len(layers) |->
        IF ~layers[n].trainable THEN layers[n]
        ELSE IF layers[n].cls \in QuantClasses
             THEN [layers[n] EXCEPT !.weights = <<kernel>>]
        ELSE IF layers[n].cls = "BatchNormalization"
             THEN [layers[n] EXCEPT !.weights = norm]
        ELSE layers[n]]

NormOutcomes == [1..3 -> Tensors]

InitMain ==
    /\ with_bm \in BOOLEAN
    /\ mpc = "build binary"
    /\ binary_weight_model = <<>>
    /\ real_weight_model = <<>>
    /\ main_out = <<>>
    /\ events = <<>>
    /\ name_uids = NoUids
    /\ runtime \in Runtimes
    /\ IdleBuild /\ IdleEqual /\ IdleScript

MainFrame == UNCHANGED <<with_bm, runtime, buildVars, equalVars, scriptVars>>

\* lines 129-131
BuildBinary ==
    /\ mpc = "build binary"
    /\ \E kinit \in Tensors :
         LET b == build_model(TRUE, FALSE, with_bm, name_uids, kinit)
         IN /\ binary_weight_model' = b.layers
            /\ name_uids' = b.uids
    /\ mpc' = "train binary"
    /\ UNCHANGED <<real_weight_model, main_out, events>>
    /\ MainFrame

\* line 134
TrainBinary ==
    /\ mpc = "train binary"
    /\ \E kernel \in Tensors, norm \in NormOutcomes :
         binary_weight_model' = Fit(binary_weight_model, kernel, norm)
    /\ events' = events \o <<<<"get_cifar_data", "">>, <<"fit", "binary">>>>
    /\ mpc' = "build real"
    /\ UNCHANGED <<real_weight_model, main_out, name_uids>>
    /\ MainFrame

\* lines 137-139
BuildReal ==
    /\ mpc = "build real"
    /\ \E kinit \in Tensors :
         LET b == build_model(FALSE, TRUE, with_bm, name_uids, kinit)
         IN /\ real_weight_model' = b.layers
            /\ name_uids' = b.uids
    /\ mpc' = "set weights"
    /\ UNCHANGED <<binary_weight_model, main_out, events>>
    /\ MainFrame

\* line 140
SetRealWeights ==
    /\ mpc = "set weights"
    /\ real_weight_model' =
         set_weights(real_weight_model, get_weights(binary_weight_model))
    /\ mpc' = "check"
    /\ UNCHANGED <<binary_weight_model, main_out, events, name_uids>>
    /\ MainFrame

\* lines 142-144
CheckAfterCopy ==
    /\ mpc = "check"
    /\ main_out' = Append(main_out,
         <<"models have same weight",
           are_layers_equal(binary_weight_model, real_weight_model, TRUE,
                            runtime).result>>)
    /\ mpc' = "test binary"
    /\ UNCHANGED <<binary_weight_model, real_weight_model, events, name_uids>>
    /\ MainFrame

Tested(which, next) ==
    /\ events' = events \o <<<<"get_cifar_data", "">>, <<"evaluate", which>>>>
    /\ mpc' = next
    /\ UNCHANGED <<binary_weight_model, real_weight_model, main_out,
                   name_uids>>
    /\ MainFrame

\* line 147
TestBinary == mpc = "test binary" /\ Tested("binary", "test real")

\* line 148
TestReal == mpc = "test real" /\ Tested("real", "retrain")

\* line 151
Retrain ==
    /\ mpc = "retrain"
    /\ \E kernel \in Tensors, norm \in NormOutcomes :
         real_weight_model' = Fit(real_weight_model, kernel, norm)
    /\ events' = events \o <<<<"get_cifar_data", "">>, <<"fit", "real">>>>
    /\ mpc' = "check retrained"
    /\ UNCHANGED <<binary_weight_model, main_out, name_uids>>
    /\ MainFrame

\* lines 153-155
CheckAfterRetraining ==
    /\ mpc = "check retrained"
    /\ main_out' = Append(main_out,
         <<"models have same weight after retraining",
           are_layers_equal(binary_weight_model, real_weight_model, TRUE,
                            runtime).result>>)
    /\ mpc' = "test retrained"
    /\ UNCHANGED <<binary_weight_model, real_weight_model, events, name_uids>>
    /\ MainFrame

\* line 157
TestRetrained == mpc = "test retrained" /\ Tested("real", "set back")

\* line 160
SetBinaryWeights ==
    /\ mpc = "set back"
    /\ binary_weight_model' =
         set_weights(binary_weight_model, get_weights(real_weight_model))
    /\ mpc' = "test binary retrained"
    /\ UNCHANGED <<real_weight_model, main_out, events, name_uids>>
    /\ MainFrame

\* line 162
TestBinaryRetrained ==
    mpc = "test binary retrained" /\ Tested("binary", "report")

\* lines 164-169
Report ==
    /\ mpc = "report"
    /\ main_out' = main_out \o
         << <<"binary model accuracy", TRUE>>,
            <<"real model accuracy", TRUE>>,
            <<"real model retrained accuracy", TRUE>>,
            <<"binary model retrained accuracy", TRUE>> >>
    /\ mpc' = "returned"
    /\ UNCHANGED <<binary_weight_model, real_weight_model, events, name_uids>>
    /\ MainFrame

NextMain ==
    \/ BuildBinary \/ TrainBinary \/ BuildReal \/ SetRealWeights
    \/ CheckAfterCopy \/ TestBinary \/ TestReal \/ Retrain
    \/ CheckAfterRetraining \/ TestRetrained \/ SetBinaryWeights
    \/ TestBinaryRetrained \/ Report

SpecMain == InitMain /\ [][NextMain]_vars

\* every weight tensor of every layer that is not a normalization layer is
\* the same in the two models
NonNormalizationEqual(a, b) ==
    /\ Len(a) = Len(b)
    /\ \A n \in 1..Len(a) :
          a[n].cls # "BatchNormalization" => a[n].weights = b[n].weights

Position(ev, e) ==
    IF \E n \in 1..Len(ev) : ev[n] = e
    THEN CHOOSE n \in 1..Len(ev) : ev[n] = e /\ \A x \in 1..(n - 1) : ev[x] # e
    ELSE 0

\* C10: in main with with_bm=True, at both check points (after set_weights
\* and after the real-valued model was retrained) every weight tensor of
\* every non-normalization layer of the real-valued model equals the binary
\* model's, both are_layers_equal(..., ignore_bm=True) calls return True,
\* and the real-valued model is first evaluated before it is retrained.
C10_OnlyNormalizationRetrained ==
    with_bm =>
        /\ mpc \in {"check", "check retrained"} =>
              NonNormalizationEqual(binary_weight_model, real_weight_model)
        /\ \A n \in 1..Len(main_out) : main_out[n][2] = TRUE
        /\ Position(events, <<"fit", "real">>) # 0 =>
              /\ Position(events, <<"evaluate", "real">>) # 0
              /\ Position(events, <<"evaluate", "real">>)
                   < Position(events, <<"fit", "real">>)

C10_Witness ==
    /\ with_bm /\ mpc = "test retrained"
    /\ main_out = << <<"models have same weight", TRUE>>,
                     <<"models have same weight after retraining", TRUE>> >>
    /\ real_weight_model[3].weights # binary_weight_model[3].weights
    /\ real_weight_model[1].weights = <<Mixed>>

(***************************************************************************)
(* The script: the module's top level (lines 220-232) and result_stats     *)
(* (lines 172-217).                                                        *)
(***************************************************************************)
MaxRuns == 2

\* lines 174-185, in units of 1/10000
res ==
    << <<5922, 1013, 5976>>,
       <<5778, 1000, 5897>>,
       <<5561, 1000, 5880>>,
       <<5657,  879, 5985>>,
       <<5557, 1168, 5905>>,
       <<5838, 1000, 5868>>,
       <<5765,  917, 6013>>,
       <<5862, 1000, 5939>>,
       <<5863, 1000, 6009>>,
       <<5504,  802, 5948>> >>

\* what the program can call or write; the last four are the dataset
\* loader, the training loop, the log directory and the results file
Functions ==
    {"main", "build_model", "train_model", "test_model", "get_cifar_data",
     "are_layers_equal", "result_stats",
     "load_data", "fit", "TensorBoard", "open"}

\* the calls in the body of each function
Callees(f) ==
    CASE f = "main" ->
            {"build_model", "train_model", "test_model", "are_layers_equal"}
      [] f = "train_model"    -> {"get_cifar_data", "TensorBoard", "fit"}
      [] f = "test_model"     -> {"get_cifar_data"}
      [] f = "get_cifar_data" -> {"load_data"}
      [] OTHER                -> {}

CalleesOf(F) == F \cup UNION {Callees(f) : f \in F}

\* everything a call of f runs
Reach(f) == CalleesOf(CalleesOf(CalleesOf({f})))

\* the entry block with the experiment loop of lines 221-229 live
EntryCallsWithExperiment == <<"main", "open", "result_stats">>

\* lines 220-232: the calls under `if __name__ == "__main__":` that are not
\* commented out
EntryCalls == <<"result_stats">>

Names == {"__main__", "larq_approximation_viewpoint_cifar"}

NoCalls == [f \in Functions |-> 0]

InitScript ==
    /\ dunder_name = ""
    /\ spc = "idle"
    /\ ip = 0
    /\ calls = NoCalls
    /\ run = 0
    /\ k = 0
    /\ bin = <<>> /\ real = <<>> /\ real_retrained = <<>>
    /\ stdout = <<>>
    /\ history = <<>>
    /\ name_uids = NoUids
    /\ runtime = "CPython"
    /\ IdleBuild /\ IdleEqual /\ IdleMain

ScriptFrame == UNCHANGED <<buildVars, equalVars, mainVars, name_uids, runtime>>

\* the interpreter loads the file, as the script or as an imported module
Start ==
    /\ spc = "idle"
    /\ run < MaxRuns
    /\ run' = run + 1
    /\ dunder_name' \in Names
    /\ spc' = "toplevel"
    /\ ip' = 0
    /\ calls' = NoCalls
    /\ k' = 0
    /\ bin' = <<>> /\ real' = <<>> /\ real_retrained' = <<>>
    /\ stdout' = <<>>
    /\ UNCHANGED history
    /\ ScriptFrame

\* line 220
TopLevel ==
    /\ spc = "toplevel"
    /\ IF dunder_name = "__main__"
       THEN spc' = "entry" /\ ip' = 1
       ELSE spc' = "exit" /\ ip' = 0
    /\ UNCHANGED <<dunder_name, calls, run, k, bin, real, real_retrained,
                   stdout, history>>
    /\ ScriptFrame

\* lines 221-232: the next call of the entry block.  result_stats is
\* stepped through below; any other function runs to its end, with all it
\* calls
Enter ==
    /\ spc = "entry"
    /\ ip <= Len(EntryCalls)
    /\ calls' = [f \in Functions |->
                   IF f \in Reach(EntryCalls[ip]) THEN calls[f] + 1
                   ELSE calls[f]]
    /\ IF EntryCalls[ip] = "result_stats"
       THEN /\ spc' = "bin"                     \* lines 187-191
            /\ k' = 1
            /\ bin' = <<>> /\ real' = <<>> /\ real_retrained' = <<>>
            /\ ip' = ip
       ELSE /\ ip' = ip + 1
            /\ UNCHANGED <<spc, k, bin, real, real_retrained>>
    /\ UNCHANGED <<dunder_name, run, stdout, history>>
    /\ ScriptFrame

\* line 193 reading r[0]
AppendRealFirstColumn(group, r) == Append(group, r[1])

AppendBin(group, r) == Append(group, r[1])              \* line 192
AppendReal(group, r) == Append(group, r[2])             \* line 193
AppendRetrained(group, r) == Append(group, r[3])        \* line 194

StatsFrame ==
    /\ UNCHANGED <<dunder_name, ip, calls, run, history>>
    /\ ScriptFrame

\* line 192
LoopBin ==
    /\ spc = "bin"
    /\ IF k <= Len(res)
       THEN bin' = AppendBin(bin, res[k]) /\ spc' = "real" /\ k' = k
       ELSE bin' = bin /\ spc' = "f_oneway" /\ k' = 0
    /\ UNCHANGED <<real, real_retrained, stdout>>
    /\ StatsFrame

\* line 193
LoopReal ==
    /\ spc = "real"
    /\ real' = AppendReal(real, res[k])
    /\ spc' = "retrained"
    /\ UNCHANGED <<k, bin, real_retrained, stdout>>
    /\ StatsFrame

\* line 194
LoopRetrained ==
    /\ spc = "retrained"
    /\ real_retrained' = AppendRetrained(real_retrained, res[k])
    /\ spc' = "bin"
    /\ k' = k + 1
    /\ UNCHANGED <<bin, real, stdout>>
    /\ StatsFrame

RECURSIVE Sum(_)
Sum(x) == IF x = <<>> THEN 0 ELSE Head(x) + Sum(Tail(x))

\* np.mean(x), as the exact fraction <<numerator, denominator>>
Mean(x) == <<"mean", Sum(x), Len(x)>>

\* np.std(x) and f_oneway(a, b, c): functions of their arguments, kept
\* unevaluated
Std(x) == <<"std", x>>
FOneway(a, b, c) == <<"f_oneway", a, b, c>>

\* lines 204-217: the arguments of the print statements, in order
Prints(a, b, c) ==
    << <<"binary">>, <<Mean(a)>>, <<Std(a)>>,
       <<"latent">>, <<Mean(b)>>, <<Std(b)>>,
       <<"latent retrained">>, <<Mean(c)>>, <<Std(c)>>,
       <<"significant">>,
       <<"f", <<"statistic", FOneway(a, b, c)>>,
         "p", <<"pvalue", FOneway(a, b, c)>>>> >>

\* lines 196-202
ComputeAnova ==
    /\ spc = "f_oneway"
    /\ spc' = "print"
    /\ k' = 1
    /\ UNCHANGED <<bin, real, real_retrained, stdout>>
    /\ StatsFrame

\* lines 204-217, one print statement
PrintLine ==
    /\ spc = "print"
    /\ k <= Len(Prints(bin, real, real_retrained))
    /\ stdout' = Append(stdout, Prints(bin, real, real_retrained)[k])
    /\ k' = k + 1
    /\ UNCHANGED <<spc, bin, real, real_retrained>>
    /\ StatsFrame

\* result_stats returns to line 232
ReturnStats ==
    /\ spc = "print"
    /\ k > Len(Prints(bin, real, real_retrained))
    /\ spc' = "entry"
    /\ ip' = ip + 1
    /\ UNCHANGED <<dunder_name, calls, run, k, bin, real, real_retrained,
                   stdout, history>>
    /\ ScriptFrame

\* the end of the file
EndOfFile ==
    /\ spc = "entry"
    /\ ip > Len(EntryCalls)
    /\ spc' = "exit"
    /\ UNCHANGED <<dunder_name, ip, calls, run, k, bin, real, real_retrained,
                   stdout, history>>
    /\ ScriptFrame

\* the process ends; history keeps what the execution did
Exit ==
    /\ spc = "exit"
    /\ history' = Append(history, [name |-> dunder_name, out |-> stdout,
                                    calls |-> calls])
    /\ spc' = "idle"
    /\ UNCHANGED <<dunder_name, ip, calls, run, k, bin, real, real_retrained,
                   stdout>>
    /\ ScriptFrame

NextScript ==
    \/ Start \/ TopLevel \/ Enter
    \/ LoopBin \/ LoopReal \/ LoopRetrained
    \/ ComputeAnova \/ PrintLine \/ ReturnStats
    \/ EndOfFile \/ Exit

SpecScript == InitScript /\ [][NextScript]_vars

Column(c) == [n \in 1..Len(res) |-> res[n][c]]

AfterLoop == spc \in {"f_oneway", "print"}

\* C7: result_stats reads only its literal table: after the loop the three
\* groups hold exactly ten values each, the n-th value of group c being
\* component c of triple n, and any two executions of the script print
\* the same lines in the same order: the three labelled mean and standard
\* deviation pairs, then the ANOVA F and p.
C7_StatsDeterministic ==
    /\ AfterLoop =>
          /\ Len(bin) = 10 /\ Len(real) = 10 /\ Len(real_retrained) = 10
          /\ bin = Column(1) /\ real = Column(2)
          /\ real_retrained = Column(3)
    /\ \A x, y \in 1..Len(history) :
          (history[x].name = "__main__" /\ history[y].name = "__main__") =>
              /\ history[x].out = history[y].out
              /\ history[x].out = Prints(Column(1), Column(2), Column(3))

C7_Witness ==
    /\ Len(history) = 2
    /\ history[1].name = "__main__" /\ history[2].name = "__main__"
    /\ Len(history[2].out) = 11
    /\ history[2].out[5] = <<<<"mean", 9779, 10>>>>

Experiment ==
    {"main", "build_model", "train_model", "test_model", "get_cifar_data",
     "load_data", "fit", "TensorBoard", "open"}

\* C8: an execution of the file as a script runs only the statistics:
\* it never calls main, build_model, train_model, test_model or
\* get_cifar_data, so it loads no dataset, trains nothing and writes no log
\* directory or results file, and it has called result_stats exactly once
\* when it ends.
C8_ScriptRunsOnlyStats ==
    /\ dunder_name = "__main__" =>
          /\ \A f \in Experiment : calls[f] = 0
          /\ calls["result_stats"] <= 1
          /\ spc = "exit" => calls["result_stats"] = 1
    /\ \A x \in 1..Len(history) :
          history[x].name = "__main__" =>
              /\ \A f \in Experiment : history[x].calls[f] = 0
              /\ history[x].calls["result_stats"] = 1

C8_Witness ==
    /\ dunder_name = "__main__" /\ spc = "exit"
    /\ calls["result_stats"] = 1 /\ calls["main"] = 0
    /\ Len(stdout) = 11

====
